---------------------------- MODULE Spec2Model ----------------------------
(***************************************************************************)
(* A model of the linear-algebra kernel src/cube/my_math.h (namespace lib).*)
(*                                                                         *)
(* The kernel is a library of pure functions.  The state of the model is   *)
(* the arguments a caller holds, the name of the last function it called   *)
(* (op) and what that call returned (res).  Init draws the arguments from  *)
(* bounded sets; every action is one call of a function of the header.     *)
(*                                                                         *)
(* Numbers.  An f32 is modelled as an extended rational <<n, d>> in lowest *)
(* terms: d > 0 is the finite value n/d, <<1,0>> and <<-1,0>> are +Inf and *)
(* -Inf, <<0,0>> is NaN.  Arithmetic is exact (no rounding) up to the      *)
(* largest finite magnitude MaxFloat, beyond which a result overflows to   *)
(* an infinity; the sign of a zero is not kept.  Angles (mod_pi, sin, cos, *)
(* tan) are integers counting units of pi/PI32, so that pi itself is       *)
(* exact.  Integers of the templates over integral T are IntBits wide.     *)
(***************************************************************************)
EXTENDS Integers, Sequences, FiniteSets, TLC

VARIABLES
    op,      \* the last function called, "none" before any call
    res,     \* what that call returned
    angle,   \* f32 angle arguments, in units of pi/PI32
    angle2,
    fa,      \* f32 arguments
    fb,
    fc,
    sa,      \* integral arguments of the scalar templates
    sb,
    sc,
    va,      \* vector arguments (a Vec2, Vec3 or Vec4)
    vb,
    vc,
    ma,      \* Mat4 arguments
    mb

vars == <<op, res, angle, angle2, fa, fb, fc, sa, sb, sc, va, vb, vc, ma, mb>>

---------------------------------------------------------------------------
(* Bounds of the model.                                                    *)

\* Width in bits of the signed integral type T of mod and clamp.
IntBits == 4
\* The angles tried are -MaxTurns*pi .. MaxTurns*pi.
MaxTurns == 5
\* The largest finite magnitude of an f32 (FLT_MAX), scaled down.
MaxFloat == 4096

\* pi, in angle units: one unit is pi/4.
PI32 == 4

INT_MIN == -(2 ^ (IntBits - 1))
INT_MAX == (2 ^ (IntBits - 1)) - 1
IntT == INT_MIN .. INT_MAX

AngleInputs == (-(MaxTurns * PI32)) .. (MaxTurns * PI32)

---------------------------------------------------------------------------
(* Integer helpers.                                                        *)

Abs(i) == IF i < 0 THEN -i ELSE i
Sgn(i) == IF i < 0 THEN -1 ELSE IF i > 0 THEN 1 ELSE 0

RECURSIVE Gcd(_, _)
Gcd(i, j) == IF j = 0 THEN i ELSE Gcd(j, i % j)

\* C++ integer division and remainder truncate towards zero.
TruncDiv(i, j) == Sgn(i) * Sgn(j) * (Abs(i) \div Abs(j))
TruncRem(i, j) == Sgn(i) * (Abs(i) % Abs(j))

\* Two's complement wrap of a value into the IntBits-wide signed range.
Wrap(i) == ((i - INT_MIN) % (2 ^ IntBits)) + INT_MIN

---------------------------------------------------------------------------
(* Scalar utilities.                                                       *)

fabsf(f) == Abs(f)

\* mod_pi, my_math.h:37-53.  (s32)(f_t / pi32_2) truncates a non-negative
\* quotient, which is the integer quotient of the unit counts.
mod_pi(angle0) ==
    LET pi32_2 == 2 * PI32
        angle1 == angle0 + PI32
        f_t0   == fabsf(angle1)
        f_t1   == f_t0 - (pi32_2 * TruncDiv(f_t0, pi32_2))
        f_t2   == f_t1 - PI32
    IN  IF angle1 < 0 THEN -f_t2 ELSE f_t2

\* A variant of clamp that clamps high before low; C9 must tell it apart.
clamp_high_first(val, min, max) ==
    LET t == IF val > max THEN max ELSE val
    IN  IF t < min THEN min ELSE t

\* clamp, my_math.h:93-98.
clamp(val, min, max) ==
    LET t == IF val < min THEN min ELSE val
    IN  IF t > max THEN max ELSE t

\* mod, my_math.h:112-116: (a % b + b) % b in T.  The sum a % b + b of two
\* values of T overflows when it leaves T, which is undefined: the build
\* either wraps it or carries the wide value on.  INT_MIN % -1 is undefined
\* as well (the quotient overflows): it yields 0 or traps.  mod_traps says
\* when the call may trap, mod_outcomes are the values it may return.
mod_sum(a, b) == TruncRem(a, b) + b

mod_overflows(a, b) == mod_sum(a, b) < INT_MIN \/ mod_sum(a, b) > INT_MAX

mod_traps(a, b) == a = INT_MIN /\ b = -1

mod_outcomes(a, b) ==
    IF mod_overflows(a, b)
    THEN {TruncRem(Wrap(mod_sum(a, b)), b), TruncRem(mod_sum(a, b), b)}
    ELSE {TruncRem(mod_sum(a, b), b)}

---------------------------------------------------------------------------
(* f32 as extended rationals.                                              *)

Zero == <<0, 1>>
One  == <<1, 1>>
Inf  == <<1, 0>>
NaN  == <<0, 0>>

\* <<n, d>> in lowest terms with d >= 0; n/0 keeps only the sign of n, and
\* a quotient of magnitude above MaxFloat overflows to the infinity of its
\* sign.
Norm(n, d) ==
    IF d = 0 THEN <<Sgn(n), 0>>
    ELSE IF Abs(n) > MaxFloat * Abs(d) THEN <<Sgn(n) * Sgn(d), 0>>
    ELSE LET g == Gcd(Abs(n), Abs(d))
         IN  <<(Sgn(d) * n) \div g, Abs(d) \div g>>

F(i) == <<i, 1>>

IsNaN(x)    == x = NaN
IsFinite(x) == x[2] > 0

\* Inf + Inf is Inf, Inf - Inf is NaN; the quotient form covers the rest.
FAdd(x, y) ==
    IF x[2] = 0 /\ y[2] = 0
    THEN (IF x = y THEN x ELSE NaN)
    ELSE Norm((x[1] * y[2]) + (y[1] * x[2]), x[2] * y[2])

FNeg(x)    == <<-x[1], x[2]>>
FSub(x, y) == FAdd(x, FNeg(y))
\* 0 * Inf is 0/0, NaN.
FMul(x, y) == Norm(x[1] * y[1], x[2] * y[2])
\* x / 0 is Inf for x # 0 and NaN for x = 0; x / Inf is 0.
FDiv(x, y) == Norm(x[1] * y[2] * (IF y[1] < 0 THEN -1 ELSE 1), x[2] * Abs(y[1]))

\* The comparisons of f32: every comparison with a NaN is false but !=.
FEq(x, y) == ~IsNaN(x) /\ ~IsNaN(y) /\ x = y
FNe(x, y) == ~FEq(x, y)
\* x < y by cross-multiplication; an infinity counts as a very large n/1.
FLt(x, y) ==
    /\ ~IsNaN(x) /\ ~IsNaN(y)
    /\ LET big(z) == IF z[2] = 0 THEN <<z[1] * 2 * MaxFloat, 1>> ELSE z
       IN  big(x)[1] * big(y)[2] < big(y)[1] * big(x)[2]
FLe(x, y) == FLt(x, y) \/ FEq(x, y)
FGt(x, y) == FLt(y, x)
\* The integer square root, and sqrt (_mm_sqrt_ss) on the rationals whose
\* root is rational; the arguments drawn by Init have rational lengths.
ISqrt(n) == CHOOSE k \in 0 .. n : k * k <= n /\ (k + 1) * (k + 1) > n

IsSquare(x) == IsFinite(x) /\ x[1] >= 0
               /\ ISqrt(x[1]) * ISqrt(x[1]) = x[1]
               /\ ISqrt(x[2]) * ISqrt(x[2]) = x[2]

sqrt(x) ==
    IF IsNaN(x) \/ x[1] < 0 THEN NaN
    ELSE IF x[2] = 0 THEN Inf
    ELSE <<ISqrt(x[1]), ISqrt(x[2])>>

---------------------------------------------------------------------------
(* The 4-wide SSE operations the header uses; a __m128 is a function on    *)
(* the lanes 0..3.                                                         *)

Lanes == 0 .. 3

mm_set_ps1(t)   == [i \in Lanes |-> t]
\* _mm_set_ps takes the lanes from the highest to the lowest.
mm_set_ps(e3, e2, e1, e0) ==
    [i \in Lanes |-> IF i = 0 THEN e0 ELSE IF i = 1 THEN e1 ELSE IF i = 2 THEN e2 ELSE e3]
mm_add_ps(a, b) == [i \in Lanes |-> FAdd(a[i], b[i])]
mm_sub_ps(a, b) == [i \in Lanes |-> FSub(a[i], b[i])]
mm_mul_ps(a, b) == [i \in Lanes |-> FMul(a[i], b[i])]
mm_div_ps(a, b) == [i \in Lanes |-> FDiv(a[i], b[i])]

\* _mm_shuffle_ps(a, b, _MM_SHUFFLE(z, y, x, w)) is (a[w], a[x], b[y], b[z]).
mm_shuffle_ps(a, b, z, y, x, w) ==
    [i \in Lanes |-> IF i = 0 THEN a[w] ELSE IF i = 1 THEN a[x] ELSE IF i = 2 THEN b[y] ELSE b[z]]

\* _mm_movelh_ps(a, b) is (a0, a1, b0, b1); _mm_movehl_ps(a, b) is (b2, b3, a2, a3).
mm_movelh_ps(a, b) ==
    [i \in Lanes |-> IF i = 0 THEN a[0] ELSE IF i = 1 THEN a[1] ELSE IF i = 2 THEN b[0] ELSE b[1]]
mm_movehl_ps(a, b) ==
    [i \in Lanes |-> IF i = 0 THEN b[2] ELSE IF i = 1 THEN b[3] ELSE IF i = 2 THEN a[2] ELSE a[3]]

---------------------------------------------------------------------------
(* Vec2, Vec3, Vec4: functions on 0..1, 0..2, 0..3 (x, y, z, w).           *)

ZeroVec(n) == [i \in 0 .. (n - 1) |-> Zero]

Vec3Of(x, y, z) == [i \in 0 .. 2 |-> IF i = 0 THEN x ELSE IF i = 1 THEN y ELSE z]
\* Vec4{ Vec3 xyz, f32 w }.
Vec4Of(xyz, w)  == [i \in Lanes |-> IF i = 3 THEN w ELSE xyz[i]]
\* The .xyz view of a Vec4.
xyz(v) == [i \in 0 .. 2 |-> v[i]]

\* Vec3 arithmetic, my_math.h:372-410.
AddVec3(a, b)   == [i \in 0 .. 2 |-> FAdd(a[i], b[i])]
SubVec3(a, b)   == [i \in 0 .. 2 |-> FSub(a[i], b[i])]
ScaleVec3(a, t) == [i \in 0 .. 2 |-> FMul(t, a[i])]

dot2(a, b) == FAdd(FMul(a[0], b[0]), FMul(a[1], b[1]))
dot3(a, b) == FAdd(FAdd(FMul(a[0], b[0]), FMul(a[1], b[1])), FMul(a[2], b[2]))
dot4(a, b) == FAdd(FAdd(FAdd(FMul(a[0], b[0]), FMul(a[1], b[1])), FMul(a[2], b[2])),
                   FMul(a[3], b[3]))

length_vec2(a) == sqrt(FAdd(FMul(a[0], a[0]), FMul(a[1], a[1])))
length_vec3(a) == sqrt(FAdd(FAdd(FMul(a[0], a[0]), FMul(a[1], a[1])), FMul(a[2], a[2])))
length_vec4(a) == sqrt(dot4(a, a))

\* cross(Vec3, Vec3), my_math.h:443-448.
cross3(a, b) ==
    Vec3Of(FSub(FMul(a[1], b[2]), FMul(a[2], b[1])),
           FSub(FMul(a[2], b[0]), FMul(a[0], b[2])),
           FSub(FMul(a[0], b[1]), FMul(a[1], b[0])))

\* normalize, my_math.h:239-251, 425-436, 618-630.  The result is the
\* vector returned together with the divisors of the divisions executed.
normalize2(a) ==
    LET length == length_vec2(a)
    IN  IF FNe(length, Zero)
        THEN LET multi == FDiv(One, length)
             IN  [out |-> [i \in 0 .. 1 |-> FMul(a[i], multi)], divisors |-> <<length>>]
        ELSE [out |-> ZeroVec(2), divisors |-> <<>>]

normalize3(a) ==
    LET length == length_vec3(a)
    IN  IF FNe(length, Zero)
        THEN LET multi == FDiv(One, length)
             IN  [out |-> [i \in 0 .. 2 |-> FMul(a[i], multi)], divisors |-> <<length>>]
        ELSE [out |-> ZeroVec(3), divisors |-> <<>>]

\* A variant of normalize(Vec4) without the test of the length; C10 must
\* tell it apart.
normalize4_unguarded(a) ==
    LET length == length_vec4(a)
        single == mm_set_ps1(FDiv(One, length))
    IN  [out |-> mm_mul_ps(a, single), divisors |-> <<length>>]

normalize4(a) ==
    LET length == length_vec4(a)
    IN  IF FNe(length, Zero)
        THEN LET single == mm_set_ps1(FDiv(One, length))
             IN  [out |-> mm_mul_ps(a, single), divisors |-> <<length>>]
        ELSE [out |-> ZeroVec(4), divisors |-> <<>>]

\* Vec2 arithmetic, my_math.h:186-209, and Vec4 arithmetic by lanes.
AddVec2(a, b)   == [i \in 0 .. 1 |-> FAdd(a[i], b[i])]
ScaleVec2(a, t) == [i \in 0 .. 1 |-> FMul(t, a[i])]
AddVec4(a, b)   == mm_add_ps(a, b)
ScaleVec4(a, t) == mm_mul_ps(a, mm_set_ps1(t))

\* refract, my_math.h:275-289, 455-466, 655-665.  The result is the vector
\* returned together with the arguments of the square roots taken.
refract2(a, b, ratio) ==
    LET cos_i == FNeg(dot2(a, b))
        sin_t == FMul(FMul(ratio, ratio), FSub(One, FMul(cos_i, cos_i)))
    IN  IF FLe(sin_t, One)
        THEN [out |-> AddVec2(ScaleVec2(a, ratio),
                              ScaleVec2(b, FSub(FMul(ratio, cos_i), sqrt(FSub(One, sin_t))))),
              roots |-> <<FSub(One, sin_t)>>]
        ELSE [out |-> ZeroVec(2), roots |-> <<>>]

refract3(a, b, ratio) ==
    LET cos_i == FNeg(dot3(a, b))
        sin_t == FMul(FMul(ratio, ratio), FSub(One, FMul(cos_i, cos_i)))
    IN  IF FLe(sin_t, One)
        THEN [out |-> AddVec3(ScaleVec3(a, ratio),
                              ScaleVec3(b, FSub(FMul(ratio, cos_i), sqrt(FSub(One, sin_t))))),
              roots |-> <<FSub(One, sin_t)>>]
        ELSE [out |-> ZeroVec(3), roots |-> <<>>]

\* A variant of refract(Vec4) without the test of sin_t; C11 must tell it
\* apart.
refract4_unguarded(a, b, ratio) ==
    LET cos_i == FNeg(dot4(a, b))
        sin_t == FMul(FMul(ratio, ratio), FSub(One, FMul(cos_i, cos_i)))
    IN  [out |-> AddVec4(ScaleVec4(a, ratio),
                         ScaleVec4(b, FSub(FMul(ratio, cos_i), sqrt(FSub(One, sin_t))))),
         roots |-> <<FSub(One, sin_t)>>]

refract4(a, b, ratio) ==
    LET cos_i == FNeg(dot4(a, b))
        sin_t == FMul(FMul(ratio, ratio), FSub(One, FMul(cos_i, cos_i)))
    IN  IF FLe(sin_t, One)
        THEN [out |-> AddVec4(ScaleVec4(a, ratio),
                              ScaleVec4(b, FSub(FMul(ratio, cos_i), sqrt(FSub(One, sin_t))))),
              roots |-> <<FSub(One, sin_t)>>]
        ELSE [out |-> ZeroVec(4), roots |-> <<>>]

\* cross(Vec4, Vec4), my_math.h:637-648.
cross4(a, b) ==
    LET tmp0 == mm_shuffle_ps(a, a, 3, 0, 2, 1)
        tmp1 == mm_shuffle_ps(b, b, 3, 1, 0, 2)
        tmp2 == mm_mul_ps(tmp0, b)
        tmp3 == mm_mul_ps(tmp0, tmp1)
        tmp4 == mm_shuffle_ps(tmp2, tmp2, 3, 0, 2, 1)
    IN  mm_sub_ps(tmp3, tmp4)

---------------------------------------------------------------------------
(* Mat4: column major, a function from the column 0..3 to a Vec4, so that  *)
(* m[c][r] is e[c][r].                                                     *)

\* Mat4 out{}.
ZeroMat == [c \in Lanes |-> ZeroVec(4)]

\* Mat4::operator()(row, column), my_math.h:721-730.
At(m, row, column) == m[column][row]

\* A variant of linear_combination whose last term broadcasts lane 2 of b
\* instead of lane 3; C4 must tell it apart.
linear_combination_lane2(a, b) ==
    LET o0 == mm_mul_ps(a[0], mm_shuffle_ps(b, b, 0, 0, 0, 0))
        o1 == mm_add_ps(o0, mm_mul_ps(a[1], mm_shuffle_ps(b, b, 1, 1, 1, 1)))
        o2 == mm_add_ps(o1, mm_mul_ps(a[2], mm_shuffle_ps(b, b, 2, 2, 2, 2)))
        o3 == mm_add_ps(o2, mm_mul_ps(a[3], mm_shuffle_ps(b, b, 2, 2, 2, 2)))
    IN  o3

\* linear_combination, my_math.h:760-772.
linear_combination(a, b) ==
    LET o0 == mm_mul_ps(a[0], mm_shuffle_ps(b, b, 0, 0, 0, 0))
        o1 == mm_add_ps(o0, mm_mul_ps(a[1], mm_shuffle_ps(b, b, 1, 1, 1, 1)))
        o2 == mm_add_ps(o1, mm_mul_ps(a[2], mm_shuffle_ps(b, b, 2, 2, 2, 2)))
        o3 == mm_add_ps(o2, mm_mul_ps(a[3], mm_shuffle_ps(b, b, 3, 3, 3, 3)))
    IN  o3

\* operator*(Mat4, Vec4), my_math.h:774-777.
MulMatVec(a, b) == linear_combination(a, b)

\* operator*(Mat4, Mat4), my_math.h:779-789.
MulMat(a, b) == [c \in Lanes |-> linear_combination(a, b[c])]

\* A variant of transpose that exchanges only the elements of the upper-left
\* 3x3 block; C14 must tell it apart.
transpose_block(a) ==
    [c \in Lanes |-> [r \in Lanes |-> IF c = 3 \/ r = 3 THEN a[c][r] ELSE a[r][c]]]

\* transpose, my_math.h:835-840.  _MM_TRANSPOSE4_PS is eight shuffles: the
\* low and the high halves of the column pairs (0x44, 0xEE), then their
\* even and their odd lanes (0x88, 0xDD).
transpose(a) ==
    LET Tmp0 == mm_shuffle_ps(a[0], a[1], 1, 0, 1, 0)
        Tmp2 == mm_shuffle_ps(a[0], a[1], 3, 2, 3, 2)
        Tmp1 == mm_shuffle_ps(a[2], a[3], 1, 0, 1, 0)
        Tmp3 == mm_shuffle_ps(a[2], a[3], 3, 2, 3, 2)
    IN  [c \in Lanes |->
           IF c = 0 THEN mm_shuffle_ps(Tmp0, Tmp1, 2, 0, 2, 0)
           ELSE IF c = 1 THEN mm_shuffle_ps(Tmp0, Tmp1, 3, 1, 3, 1)
           ELSE IF c = 2 THEN mm_shuffle_ps(Tmp2, Tmp3, 2, 0, 2, 0)
           ELSE mm_shuffle_ps(Tmp2, Tmp3, 3, 1, 3, 1)]

\* create_diagonal_matrix, my_math.h:842-853.
create_diagonal_matrix(val) ==
    [c \in Lanes |-> [r \in Lanes |-> IF r = c THEN val ELSE Zero]]

\* create_translate, my_math.h:855-865.
create_translate(translation) ==
    [create_diagonal_matrix(One) EXCEPT ![3] =
        [r \in Lanes |-> IF r = 3 THEN One ELSE translation[r]]]

\* sin and cos of <cmath> at the multiples of a quarter turn, where they are
\* 0, 1 and -1; the angles drawn for the rotations are such multiples.
QuarterTurn == PI32 \div 2
Quadrant(a) == (a \div QuarterTurn) % 4
sin(a) == F(IF Quadrant(a) = 1 THEN 1 ELSE IF Quadrant(a) = 3 THEN -1 ELSE 0)
cos(a) == F(IF Quadrant(a) = 0 THEN 1 ELSE IF Quadrant(a) = 2 THEN -1 ELSE 0)

\* The upper-left 3x3 block of out replaced by the nine values e[c][r].
WithBlock(out, e00, e01, e02, e10, e11, e12, e20, e21, e22) ==
    [c \in Lanes |-> [r \in Lanes |->
        IF c = 3 \/ r = 3 THEN out[c][r]
        ELSE IF c = 0 THEN (IF r = 0 THEN e00 ELSE IF r = 1 THEN e01 ELSE e02)
        ELSE IF c = 1 THEN (IF r = 0 THEN e10 ELSE IF r = 1 THEN e11 ELSE e12)
        ELSE (IF r = 0 THEN e20 ELSE IF r = 1 THEN e21 ELSE e22)]]

\* A variant of create_rotation that turns the other way (the signs of the
\* sine terms exchanged); C18 must tell it apart.
create_rotation_reversed(axis0, a) ==
    LET axis      == normalize3(axis0).out
        sin_theta == sin(a)
        cos_theta == cos(a)
        cos_val   == FSub(One, cos_theta)
        sq(i, j)  == FMul(FMul(axis[i], axis[j]), cos_val)
    IN  WithBlock(create_diagonal_matrix(One),
                  FAdd(sq(0, 0), cos_theta),
                  FSub(sq(0, 1), FMul(axis[2], sin_theta)),
                  FAdd(sq(0, 2), FMul(axis[1], sin_theta)),
                  FAdd(sq(1, 0), FMul(axis[2], sin_theta)),
                  FAdd(sq(1, 1), cos_theta),
                  FSub(sq(1, 2), FMul(axis[0], sin_theta)),
                  FSub(sq(2, 0), FMul(axis[1], sin_theta)),
                  FAdd(sq(2, 1), FMul(axis[0], sin_theta)),
                  FAdd(sq(2, 2), cos_theta))

\* create_rotation, my_math.h:867-889; sq(i, j) is axis_i * axis_j * cos_val.
create_rotation(axis0, a) ==
    LET axis      == normalize3(axis0).out
        sin_theta == sin(a)
        cos_theta == cos(a)
        cos_val   == FSub(One, cos_theta)
        sq(i, j)  == FMul(FMul(axis[i], axis[j]), cos_val)
    IN  WithBlock(create_diagonal_matrix(One),
                  FAdd(sq(0, 0), cos_theta),
                  FAdd(sq(0, 1), FMul(axis[2], sin_theta)),
                  FSub(sq(0, 2), FMul(axis[1], sin_theta)),
                  FSub(sq(1, 0), FMul(axis[2], sin_theta)),
                  FAdd(sq(1, 1), cos_theta),
                  FAdd(sq(1, 2), FMul(axis[0], sin_theta)),
                  FAdd(sq(2, 0), FMul(axis[1], sin_theta)),
                  FSub(sq(2, 1), FMul(axis[0], sin_theta)),
                  FAdd(sq(2, 2), cos_theta))

\* create_rotation_x, my_math.h:891-911.
create_rotation_x(a) ==
    LET sin_theta == sin(a)
        cos_theta == cos(a)
    IN  WithBlock(create_diagonal_matrix(One),
                  One, Zero, Zero,
                  Zero, cos_theta, sin_theta,
                  Zero, FNeg(sin_theta), cos_theta)

\* create_rotation_y, my_math.h:913-933.
create_rotation_y(a) ==
    LET sin_theta == sin(a)
        cos_theta == cos(a)
    IN  WithBlock(create_diagonal_matrix(One),
                  cos_theta, Zero, FNeg(sin_theta),
                  Zero, One, Zero,
                  sin_theta, Zero, cos_theta)

\* A variant of create_rotation_z with the two sines exchanged (the
\* transposed rotation); C6 must tell it apart.
create_rotation_z_transposed(a) ==
    LET sin_theta == sin(a)
        cos_theta == cos(a)
    IN  WithBlock(create_diagonal_matrix(One),
                  cos_theta, FNeg(sin_theta), Zero,
                  sin_theta, cos_theta, Zero,
                  Zero, Zero, One)

\* create_rotation_z, my_math.h:935-955.
create_rotation_z(a) ==
    LET sin_theta == sin(a)
        cos_theta == cos(a)
    IN  WithBlock(create_diagonal_matrix(One),
                  cos_theta, sin_theta, Zero,
                  FNeg(sin_theta), cos_theta, Zero,
                  Zero, Zero, One)

\* The sixteen assignments create_look_at and create_fpp_view share,
\* my_math.h:965-983: column c holds the c-th components of right, upward
\* and forward, column 3 the negated dots with eye.
ViewOf(right, upward, forward, eye) ==
    [c \in Lanes |->
        IF c = 3 THEN Vec4Of(Vec3Of(FNeg(dot3(right, eye)), FNeg(dot3(upward, eye)),
                                    FNeg(dot3(forward, eye))), One)
        ELSE Vec4Of(Vec3Of(right[c], upward[c], forward[c]), Zero)]

\* A variant of create_look_at that stores right, upward and forward as the
\* columns; C12 must tell it apart.
create_look_at_columns(eye, target, up) ==
    LET forward == normalize3(SubVec3(eye, target)).out
        right   == normalize3(cross3(up, forward)).out
        upward  == cross3(forward, right)
        out     == ViewOf(right, upward, forward, eye)
    IN  [c \in Lanes |-> IF c = 3 THEN out[3]
                         ELSE [r \in Lanes |-> IF r = 3 THEN Zero ELSE out[r][c]]]

\* create_look_at, my_math.h:957-986.
create_look_at(eye, target, up) ==
    LET forward == normalize3(SubVec3(eye, target)).out
        right   == normalize3(cross3(up, forward)).out
        upward  == cross3(forward, right)
    IN  ViewOf(right, upward, forward, eye)

\* create_fpp_view, my_math.h:988-1022.
create_fpp_view(eye, pitch, yaw) ==
    LET cos_pitch == cos(pitch)
        sin_pitch == sin(pitch)
        cos_yaw   == cos(yaw)
        sin_yaw   == sin(yaw)
        forward   == Vec3Of(cos_yaw, Zero, FNeg(sin_yaw))
        right     == Vec3Of(FMul(sin_yaw, sin_pitch), cos_pitch, FMul(cos_yaw, sin_pitch))
        upward    == Vec3Of(FMul(sin_yaw, cos_pitch), FNeg(sin_pitch), FMul(cos_pitch, cos_yaw))
    IN  ViewOf(right, upward, forward, eye)

\* tan of <cmath> at the multiples of pi/4 that are no pole, where it is 0,
\* 1 and -1; the fields of view drawn have such halves.
EighthTurn == PI32 \div 4
tan(a) ==
    LET q == (a \div EighthTurn) % 4
    IN  CASE q = 0 -> Zero
          [] q = 1 -> One
          [] q = 3 -> F(-1)

\* A variant of create_perspective with the depth range -1 .. 1 of
\* OpenGL; C13 must tell it apart.
create_perspective_gl(fov, aspect, near, far) ==
    LET y_scale == FDiv(One, tan(fov \div 2))
        x_scale == FDiv(y_scale, aspect)
    IN  [c \in Lanes |-> [r \in Lanes |->
           IF c = 0 /\ r = 0 THEN x_scale
           ELSE IF c = 1 /\ r = 1 THEN y_scale
           ELSE IF c = 2 /\ r = 3 THEN F(-1)
           ELSE IF c = 2 /\ r = 2 THEN FDiv(FAdd(far, near), FSub(near, far))
           ELSE IF c = 3 /\ r = 2 THEN FDiv(FMul(F(2), FMul(near, far)), FSub(near, far))
           ELSE Zero]]

\* create_perspective, my_math.h:1024-1039; fov / 2.0f is half the count
\* of units of an even fov.
create_perspective(fov, aspect, near, far) ==
    LET y_scale == FDiv(One, tan(fov \div 2))
        x_scale == FDiv(y_scale, aspect)
    IN  [c \in Lanes |-> [r \in Lanes |->
           IF c = 0 /\ r = 0 THEN x_scale
           ELSE IF c = 1 /\ r = 1 THEN y_scale
           ELSE IF c = 2 /\ r = 3 THEN F(-1)
           ELSE IF c = 2 /\ r = 2 THEN FDiv(far, FSub(near, far))
           ELSE IF c = 3 /\ r = 2 THEN FDiv(FMul(near, far), FSub(near, far))
           ELSE Zero]]

\* A variant of det whose u adds where det subtracts; C5 must tell it apart.
det_u_added(a) ==
    LET c01 == cross3(xyz(a[0]), xyz(a[1]))
        c23 == cross3(xyz(a[2]), xyz(a[3]))
        u   == AddVec3(ScaleVec3(xyz(a[0]), a[1][3]), ScaleVec3(xyz(a[1]), a[0][3]))
        v   == SubVec3(ScaleVec3(xyz(a[2]), a[3][3]), ScaleVec3(xyz(a[3]), a[2][3]))
    IN  FAdd(dot3(c01, v), dot3(c23, u))

\* det, my_math.h:1041-1052.
det(a) ==
    LET c01 == cross3(xyz(a[0]), xyz(a[1]))
        c23 == cross3(xyz(a[2]), xyz(a[3]))
        u   == SubVec3(ScaleVec3(xyz(a[0]), a[1][3]), ScaleVec3(xyz(a[1]), a[0][3]))
        v   == SubVec3(ScaleVec3(xyz(a[2]), a[3][3]), ScaleVec3(xyz(a[3]), a[2][3]))
    IN  FAdd(dot3(c01, v), dot3(c23, u))

\* inverse, my_math.h:1054-1076.  No check of the determinant: 1.0f / 0 is
\* Inf.  inverse_rows is out before the final transpose: its vecs are the
\* rows of the inverse.
inverse_rows(a) ==
    LET c01_0 == cross3(xyz(a[0]), xyz(a[1]))
        c23_0 == cross3(xyz(a[2]), xyz(a[3]))
        u_0   == SubVec3(ScaleVec3(xyz(a[0]), a[1][3]), ScaleVec3(xyz(a[1]), a[0][3]))
        v_0   == SubVec3(ScaleVec3(xyz(a[2]), a[3][3]), ScaleVec3(xyz(a[3]), a[2][3]))
        inv_det == FDiv(One, FAdd(dot3(c01_0, v_0), dot3(c23_0, u_0)))
        c01 == ScaleVec3(c01_0, inv_det)
        c23 == ScaleVec3(c23_0, inv_det)
        u   == ScaleVec3(u_0, inv_det)
        v   == ScaleVec3(v_0, inv_det)
    IN  [c \in Lanes |->
           IF c = 0 THEN Vec4Of(AddVec3(cross3(xyz(a[1]), v), ScaleVec3(c23, a[1][3])),
                                FNeg(dot3(xyz(a[1]), c23)))
           ELSE IF c = 1 THEN Vec4Of(SubVec3(cross3(v, xyz(a[0])), ScaleVec3(c23, a[0][3])),
                                dot3(xyz(a[0]), c23))
           ELSE IF c = 2 THEN Vec4Of(AddVec3(cross3(xyz(a[3]), u), ScaleVec3(c01, a[3][3])),
                                FNeg(dot3(xyz(a[3]), c01)))
           ELSE Vec4Of(SubVec3(cross3(u, xyz(a[2])), ScaleVec3(c01, a[2][3])),
                                dot3(xyz(a[2]), c01))]

\* A variant of inverse that returns out without transposing it; C2 must
\* tell it apart.
inverse_not_transposed(a) == inverse_rows(a)

inverse(a) == transpose(inverse_rows(a))

\* trans_linear_combination, my_math.h:1078-1088.
trans_linear_combination(a, b) ==
    LET o0 == mm_mul_ps(a[0], mm_shuffle_ps(b, b, 0, 0, 0, 0))
        o1 == mm_add_ps(o0, mm_mul_ps(a[1], mm_shuffle_ps(b, b, 1, 1, 1, 1)))
        o2 == mm_add_ps(o1, mm_mul_ps(a[2], mm_shuffle_ps(b, b, 2, 2, 2, 2)))
    IN  o2

\* mul_trans_vec, my_math.h:1104-1113: a Vec3 in, the x, y, z lanes out.
mul_trans_vec(a, p) ==
    LET converted == mm_set_ps(Zero, p[2], p[1], p[0])
    IN  xyz(trans_linear_combination(a, converted))

\* A variant of mul_trans that cuts the last term of column 3 as well; C3
\* must tell it apart.
mul_trans_all_cut(a, b) == [c \in Lanes |-> trans_linear_combination(a, b[c])]

\* mul_trans, my_math.h:1129-1140.
mul_trans(a, b) ==
    [c \in Lanes |-> IF c = 3 THEN linear_combination(a, b[3])
                     ELSE trans_linear_combination(a, b[c])]

\* The bits of an f32 xor-ed with the bits of 1.0f (0x3F800000), the w lane
\* of the last _mm_xor_ps of inverse_trans.  +0.0 becomes 1.0 and back; the
\* NaN that 0 * Inf produces on SSE (0xFFC00000) becomes -3.0 (0xC0400000)
\* and back; Inf (0x7F800000) becomes 2.0 and back.  Every other pattern
\* becomes a number below 2^-125 or above 2^126 in magnitude or a NaN, none
\* of which the rationals of the model carry: Unrepresented stands for them.
Unrepresented == <<0, -1>>

XorOneBits(x) ==
    IF x = Zero THEN One
    ELSE IF x = One THEN Zero
    ELSE IF x = NaN THEN F(-3)
    ELSE IF x = F(-3) THEN NaN
    ELSE IF x = Inf THEN F(2)
    ELSE IF x = F(2) THEN Inf
    ELSE IF x = FNeg(Inf) THEN F(-2)
    ELSE IF x = F(-2) THEN FNeg(Inf)
    ELSE Unrepresented

\* inverse_trans, my_math.h:1152-1188, step by step.
\* "transpose 3x3": the three columns after the movelh/movehl/shuffle.
inverse_trans_transposed(a) ==
    LET t0 == mm_movelh_ps(a[0], a[1])
        t1 == mm_movehl_ps(a[0], a[1])
    IN  [c \in 0 .. 2 |->
           IF c = 0 THEN mm_shuffle_ps(t0, a[2], 3, 0, 2, 0)
           ELSE IF c = 1 THEN mm_shuffle_ps(t0, a[2], 3, 1, 3, 1)
           ELSE mm_shuffle_ps(t1, a[2], 3, 2, 2, 0)]

\* The squared lengths of the axes, three dots at once (and a fourth lane).
inverse_trans_lengths_squared(a) ==
    LET t  == inverse_trans_transposed(a)
        l0 == mm_mul_ps(t[0], t[0])
        l1 == mm_add_ps(l0, mm_mul_ps(t[1], t[1]))
        l2 == mm_add_ps(l1, mm_mul_ps(t[2], t[2]))
    IN  l2

inverse_trans(a) ==
    LET t  == inverse_trans_transposed(a)
        r_lengths_squared == mm_div_ps(mm_set_ps1(One), inverse_trans_lengths_squared(a))
        o0 == mm_mul_ps(t[0], r_lengths_squared)
        o1 == mm_mul_ps(t[1], r_lengths_squared)
        o2 == mm_mul_ps(t[2], r_lengths_squared)
        p0 == mm_mul_ps(o0, mm_shuffle_ps(a[3], a[3], 0, 0, 0, 0))
        p1 == mm_add_ps(p0, mm_mul_ps(o1, mm_shuffle_ps(a[3], a[3], 1, 1, 1, 1)))
        p2 == mm_add_ps(p1, mm_mul_ps(o2, mm_shuffle_ps(a[3], a[3], 2, 2, 2, 2)))
        \* _mm_xor_ps with (-0.f, -0.f, -0.f, 1.f): x, y, z change sign.
        o3 == [i \in Lanes |-> IF i = 3 THEN XorOneBits(p2[3]) ELSE FNeg(p2[i])]
    IN  [c \in Lanes |-> IF c = 0 THEN o0 ELSE IF c = 1 THEN o1 ELSE IF c = 2 THEN o2 ELSE o3]

---------------------------------------------------------------------------
(* The arguments Init draws.                                               *)

\* Largest magnitude of a vector component passed to normalize.
MaxCoord == 4
\* Largest magnitude of a component of an axis (a column of the 3x3 block).
MaxAxis == 1
\* The translations tried are the multiples -MaxTrans .. MaxTrans of (1, 2, 3).
MaxTrans == 1
\* Largest component of a column of a general matrix.
MaxEntry == 2

IntVec(n, lo, hi) == {[i \in 0 .. (n - 1) |-> F(q[i])] : q \in [0 .. (n - 1) -> lo .. hi]}

\* Vectors of 2, 3 and 4 integer components whose length is rational.
NormalizeInputs ==
    {v \in IntVec(2, -MaxCoord, MaxCoord) : IsSquare(dot2(v, v))}
        \cup {v \in IntVec(3, -MaxCoord, MaxCoord) : IsSquare(dot3(v, v))}
        \cup {v \in IntVec(4, -MaxCoord, MaxCoord) : IsSquare(dot4(v, v))}

\* A matrix from its four columns.
MatOf(c0, c1, c2, c3) ==
    [c \in Lanes |-> IF c = 0 THEN c0 ELSE IF c = 1 THEN c1 ELSE IF c = 2 THEN c2 ELSE c3]

\* An affine matrix: three axes, a translation, bottom row [0,0,0,1].
AffineOf(x, y, z, t) == MatOf(Vec4Of(x, Zero), Vec4Of(y, Zero), Vec4Of(z, Zero), Vec4Of(t, One))

IsAffine(m) == m[0][3] = Zero /\ m[1][3] = Zero /\ m[2][3] = Zero /\ m[3][3] = One

\* The no-shear invariant: the three axes are non-zero and mutually orthogonal.
NoShear(m) ==
    /\ \A c \in 0 .. 2 : dot3(xyz(m[c]), xyz(m[c])) # Zero
    /\ dot3(xyz(m[0]), xyz(m[1])) = Zero
    /\ dot3(xyz(m[0]), xyz(m[2])) = Zero
    /\ dot3(xyz(m[1]), xyz(m[2])) = Zero

\* Axes: non-zero, in a coordinate plane (at most two non-zero components).
AxisVecs  == {v \in IntVec(3, -MaxAxis, MaxAxis) :
                 v # ZeroVec(3) /\ \E i \in 0 .. 2 : v[i] = Zero}
TransVecs == {[i \in 0 .. 2 |-> F(k * (i + 1))] : k \in (-MaxTrans) .. MaxTrans}

\* Rotations and axis-aligned scales: orthogonal non-zero axes.
OrthoBlocks ==
    {p \in AxisVecs \X AxisVecs \X AxisVecs :
        /\ dot3(p[1], p[2]) = Zero
        /\ dot3(p[1], p[3]) = Zero
        /\ dot3(p[2], p[3]) = Zero}

OrthoAffine == {AffineOf(q[1][1], q[1][2], q[1][3], q[2]) : q \in OrthoBlocks \X TransVecs}

\* Affine matrices with shear: the x axis leans on y, the z axis on x.
ShearAffine ==
    {AffineOf(Vec3Of(One, F(k), Zero), Vec3Of(Zero, One, Zero), Vec3Of(F(2), Zero, One), t) :
        k \in {-1, 1}, t \in TransVecs}

AffineInputs == OrthoAffine \cup ShearAffine

\* General matrices: each column is a unit vector, k times the unit vector
\* of lane k mod 4 for a k in 2 .. MaxEntry, or the difference of a unit
\* vector and the next one.
UnitCol(i, k)  == [r \in Lanes |-> IF r = i THEN F(k) ELSE Zero]
DiffCol(i, j)  == [r \in Lanes |-> IF r = i THEN One ELSE IF r = j THEN F(-1) ELSE Zero]
ColSet == {UnitCol(i, 1) : i \in Lanes}
              \cup {UnitCol(k % 4, k) : k \in 2 .. MaxEntry}
              \cup {DiffCol(i, (i + 1) % 4) : i \in Lanes}
GenMats == {MatOf(q[1], q[2], q[3], q[4]) : q \in ColSet \X ColSet \X ColSet \X ColSet}

\* Second operands of the products.
MulOperands ==
    {MatOf(DiffCol(0, 3), UnitCol(1, 2), DiffCol(1, 2), UnitCol(0, 3)),
     MatOf(UnitCol(2, 1), DiffCol(0, 1), UnitCol(3, 5), DiffCol(2, 3)),
     transpose(create_translate(Vec3Of(F(2), F(-1), F(3))))}

\* The angles at which sin and cos are modelled.
QuarterAngles == {a \in AngleInputs : a % QuarterTurn = 0}

\* Vec4 arguments of the matrix-vector products: directions and points.
PointInputs == {Vec4Of(v, w) : v \in IntVec(3, -1, 1), w \in {Zero, One}}

\* Arguments of the view constructors.  The components of eye - target are
\* at most MaxCam in magnitude; the triples kept are those whose two
\* normalize calls have rational lengths.
MaxCam == 4

CamTargets == {ZeroVec(3), Vec3Of(One, F(-2), F(3))}
CamUps     == {Vec3Of(Zero, One, Zero), Vec3Of(Zero, Zero, F(2)), Vec3Of(One, One, Zero)}

LookAtInputs ==
    {q \in IntVec(3, -MaxCam, MaxCam) \X CamTargets \X CamUps :
        /\ IsSquare(dot3(q[1], q[1]))
        /\ LET c == cross3(q[3], normalize3(q[1]).out)
           IN  IsSquare(dot3(c, c))}

\* Pitch and yaw: the quarter turns of one turn either way.
ViewAngles == {a \in QuarterAngles : (-(2 * PI32)) <= a /\ a <= 2 * PI32}

\* The view direction of create_fpp_view at pitch 0 and yaw 0 under the
\* convention of the header (right-handed, y up): down the negative z axis.
Ahead == Vec3Of(Zero, Zero, F(-1))
YUp   == Vec3Of(Zero, One, Zero)

\* Arguments of create_perspective.  The fields of view are the even
\* angles whose half is no pole of tan; near, far and the depth of the
\* point are the halves 0 .. MaxDepth/2.
MaxDepth == 4

Fovs    == {a \in AngleInputs : a % 2 = 0 /\ ((a \div 2) \div EighthTurn) % 4 # 2}
Depths  == {Norm(k, 2) : k \in 0 .. MaxDepth}
Aspects == {One, F(2)}
\* View-space points and directions on and off the axis of the frustum.
ViewPoints == {Vec4Of(Vec3Of(x, Zero, FNeg(z)), w) : x \in {Zero, One}, z \in Depths, w \in {Zero, One}}

\* Arguments of cross: small x, y and z, and a w that is zero, small or the
\* largest finite f32.
CrossInputs == {Vec4Of(v, w) : v \in IntVec(3, -1, 1), w \in {Zero, One, F(-2), F(MaxFloat)}}

\* Axes of create_rotation: the integer vectors of rational length with
\* components up to MaxAxis + 1 in magnitude, the zero vector among them.
RotationAxes == {v \in IntVec(3, -(MaxAxis + 1), MaxAxis + 1) : IsSquare(dot3(v, v))}

\* Arguments of refract.  The slopes m = -MaxSlope .. MaxSlope give the unit
\* vectors ((m*m - 1) / (m*m + 1), 2m / (m*m + 1)); the ratios of the
\* refraction indices are the thirds -1/3 .. MaxRatio/3.
MaxSlope == 2
MaxRatio == 6

UnitVec2(m) == [i \in 0 .. 1 |-> IF i = 0 THEN Norm((m * m) - 1, (m * m) + 1)
                                 ELSE Norm(2 * m, (m * m) + 1)]

\* Unit vectors and vectors that are not normalized, the zero vector too.
RefractVecs2 == {UnitVec2(m) : m \in (-MaxSlope) .. MaxSlope} \cup IntVec(2, -1, 1)
RefractVecs3 == {Vec3Of(v[0], v[1], Zero) : v \in RefractVecs2}
                    \cup {Vec3Of(Zero, v[0], v[1]) : v \in RefractVecs2}
RefractVecs4 == {Vec4Of(Vec3Of(v[0], v[1], Zero), Zero) : v \in RefractVecs2}
                    \cup {Vec4Of(Vec3Of(Zero, Zero, v[0]), v[1]) : v \in RefractVecs2}
Ratios == {Norm(k, 3) : k \in (-1) .. MaxRatio}

\* dot of the overload of the arguments' type.
dot(a, b) == IF DOMAIN a = 0 .. 1 THEN dot2(a, b)
             ELSE IF DOMAIN a = 0 .. 2 THEN dot3(a, b) ELSE dot4(a, b)

\* ratio^2 * (1 - dot(a, b)^2), the discriminant of refract.
Discriminant(a, b, ratio) ==
    FMul(FMul(ratio, ratio), FSub(One, FMul(dot(a, b), dot(a, b))))

\* The arguments whose square root, if refract takes it, is rational.
RefractInputs ==
    {q \in ((RefractVecs2 \X RefractVecs2) \cup (RefractVecs3 \X RefractVecs3)
              \cup (RefractVecs4 \X RefractVecs4)) \X Ratios :
        \/ FGt(Discriminant(q[1][1], q[1][2], q[2]), One)
        \/ IsSquare(FSub(One, Discriminant(q[1][1], q[1][2], q[2])))}

---------------------------------------------------------------------------
(* Initial states: no call made yet; the arguments a specification does    *)
(* not use are zero.                                                       *)

args == <<angle, angle2, fa, fb, fc, sa, sb, sc, va, vb, vc, ma, mb>>

\* The arguments only the vector, camera and projection calls take.
RestZero == angle2 = 0 /\ fa = Zero /\ fb = Zero /\ fc = Zero /\ vc = ZeroVec(4)

NoCall == op = "none" /\ res = 0

InitScalar ==
    /\ NoCall
    /\ RestZero
    /\ \/ angle \in AngleInputs /\ sa = 0 /\ sb = 0 /\ sc = 0
       \/ angle = 0 /\ sa \in IntT /\ sb \in IntT /\ sc \in IntT
    /\ va = ZeroVec(4) /\ vb = ZeroVec(4) /\ ma = ZeroMat /\ mb = ZeroMat

InitVec ==
    /\ NoCall
    /\ RestZero
    /\ angle = 0 /\ sa = 0 /\ sb = 0 /\ sc = 0
    /\ va \in NormalizeInputs
    /\ vb = ZeroVec(4) /\ ma = ZeroMat /\ mb = ZeroMat

InitRefract ==
    /\ NoCall
    /\ angle = 0 /\ angle2 = 0 /\ sa = 0 /\ sb = 0 /\ sc = 0
    /\ \E q \in RefractInputs : va = q[1][1] /\ vb = q[1][2] /\ fa = q[2]
    /\ fb = Zero /\ fc = Zero
    /\ vc = ZeroVec(4) /\ ma = ZeroMat /\ mb = ZeroMat

\* Either a look-at triple and no turn, or an eye looking ahead and a
\* pitch and a yaw.
InitView ==
    /\ NoCall
    /\ sa = 0 /\ sb = 0 /\ sc = 0
    /\ fa = Zero /\ fb = Zero /\ fc = Zero
    /\ \/ /\ \E q \in LookAtInputs : va = AddVec3(q[2], q[1]) /\ vb = q[2] /\ vc = q[3]
          /\ angle = 0 /\ angle2 = 0
       \/ /\ va \in IntVec(3, -1, 1) /\ vb = AddVec3(va, Ahead) /\ vc = YUp
          /\ angle \in ViewAngles /\ angle2 \in ViewAngles
    /\ ma = ZeroMat /\ mb = ZeroMat

InitPersp ==
    /\ NoCall
    /\ angle \in Fovs /\ angle2 = 0
    /\ fa \in Aspects /\ fb \in Depths /\ fc \in Depths
    /\ sa = 0 /\ sb = 0 /\ sc = 0
    /\ va \in ViewPoints
    /\ vb = ZeroVec(4) /\ vc = ZeroVec(4) /\ ma = ZeroMat /\ mb = ZeroMat

InitCross ==
    /\ NoCall
    /\ RestZero
    /\ angle = 0 /\ sa = 0 /\ sb = 0 /\ sc = 0
    /\ va \in CrossInputs /\ vb \in CrossInputs
    /\ ma = ZeroMat /\ mb = ZeroMat

InitMat ==
    /\ NoCall
    /\ RestZero
    /\ angle = 0 /\ sa = 0 /\ sb = 0 /\ sc = 0
    /\ va = ZeroVec(4) /\ vb = ZeroVec(4)
    /\ ma \in GenMats
    /\ mb = ZeroMat

InitAffine ==
    /\ NoCall
    /\ RestZero
    /\ angle = 0 /\ sa = 0 /\ sb = 0 /\ sc = 0
    /\ va = ZeroVec(4) /\ vb = ZeroVec(4)
    /\ ma \in AffineInputs
    /\ mb = ZeroMat

InitRot ==
    /\ NoCall
    /\ RestZero
    /\ angle \in QuarterAngles
    /\ sa = 0 /\ sb = 0 /\ sc = 0
    /\ va \in PointInputs
    /\ vb = ZeroVec(4) /\ ma = ZeroMat /\ mb = ZeroMat

---------------------------------------------------------------------------
(* The calls.  Each is made once, on the arguments drawn.                  *)

\* f32 r = mod_pi(angle).
call_mod_pi ==
    /\ op = "none"
    /\ op' = "mod_pi"
    /\ res' = mod_pi(angle)
    /\ UNCHANGED args

\* T r = clamp(val, min, max) with val = sa, min = sb, max = sc.
call_clamp ==
    /\ op = "none"
    /\ op' = "clamp"
    /\ res' = clamp(sa, sb, sc)
    /\ UNCHANGED args

\* T r = mod(a, b) with a = sa, b = sb.  A zero divisor traps, INT_MIN % -1
\* may trap; an overflowing sum returns either of its outcomes.
call_mod ==
    /\ op = "none"
    /\ \/ /\ sb # 0
          /\ \E r \in mod_outcomes(sa, sb) : op' = "mod" /\ res' = r
       \/ /\ sb = 0 \/ mod_traps(sa, sb)
          /\ op' = "trap"
          /\ res' = 0
    /\ UNCHANGED args

\* normalize(Vec2), normalize(Vec3), normalize(Vec4): the overload is the
\* one of the argument's type.
call_normalize2 ==
    /\ op = "none"
    /\ DOMAIN va = 0 .. 1
    /\ op' = "normalize2"
    /\ res' = normalize2(va)
    /\ UNCHANGED args

call_normalize3 ==
    /\ op = "none"
    /\ DOMAIN va = 0 .. 2
    /\ op' = "normalize3"
    /\ res' = normalize3(va)
    /\ UNCHANGED args

call_normalize4 ==
    /\ op = "none"
    /\ DOMAIN va = 0 .. 3
    /\ op' = "normalize4"
    /\ res' = normalize4(va)
    /\ UNCHANGED args

\* refract(a, b, ratio) with a = va, b = vb, ratio = fa, by the overload of
\* the arguments' type.
call_refract2 ==
    /\ op = "none"
    /\ DOMAIN va = 0 .. 1
    /\ op' = "refract2"
    /\ res' = refract2(va, vb, fa)
    /\ UNCHANGED args

call_refract3 ==
    /\ op = "none"
    /\ DOMAIN va = 0 .. 2
    /\ op' = "refract3"
    /\ res' = refract3(va, vb, fa)
    /\ UNCHANGED args

call_refract4 ==
    /\ op = "none"
    /\ DOMAIN va = 0 .. 3
    /\ op' = "refract4"
    /\ res' = refract4(va, vb, fa)
    /\ UNCHANGED args

\* Mat4 r = create_look_at(eye, target, up) with eye = va, target = vb,
\* up = vc.
call_create_look_at ==
    /\ op = "none"
    /\ op' = "create_look_at"
    /\ res' = create_look_at(va, vb, vc)
    /\ UNCHANGED args

\* Mat4 r = create_fpp_view(eye, pitch, yaw) with eye = va, pitch = angle,
\* yaw = angle2.
call_create_fpp_view ==
    /\ op = "none"
    /\ op' = "create_fpp_view"
    /\ res' = create_fpp_view(va, angle, angle2)
    /\ UNCHANGED args

\* Mat4 r = create_perspective(fov, aspect, near, far) with fov = angle,
\* aspect = fa, near = fb, far = fc.
call_create_perspective ==
    /\ op = "none"
    /\ op' = "create_perspective"
    /\ res' = create_perspective(angle, fa, fb, fc)
    /\ UNCHANGED args

\* Vec4 r = create_perspective(fov, aspect, near, far) * v.
call_perspective_point ==
    /\ op = "none"
    /\ op' = "perspective_point"
    /\ res' = MulMatVec(create_perspective(angle, fa, fb, fc), va)
    /\ UNCHANGED args

\* Vec3 r = cross(a.xyz, b.xyz).
call_cross3 ==
    /\ op = "none"
    /\ op' = "cross3"
    /\ res' = cross3(xyz(va), xyz(vb))
    /\ UNCHANGED args

\* Vec4 r = cross(a, b).
call_cross4 ==
    /\ op = "none"
    /\ op' = "cross4"
    /\ res' = cross4(va, vb)
    /\ UNCHANGED args

\* f32 d = det(a).
call_det ==
    /\ op = "none"
    /\ op' = "det"
    /\ res' = det(ma)
    /\ UNCHANGED args

\* Mat4 r = transpose(a).
call_transpose ==
    /\ op = "none"
    /\ op' = "transpose"
    /\ res' = transpose(ma)
    /\ UNCHANGED args

\* Mat4 r = inverse(a).
call_inverse ==
    /\ op = "none"
    /\ op' = "inverse"
    /\ res' = inverse(ma)
    /\ UNCHANGED args

\* Mat4 r = a * b.
call_mul ==
    /\ op = "none"
    /\ \E b \in MulOperands :
          /\ mb' = b
          /\ op' = "mul"
          /\ res' = MulMat(ma, b)
    /\ UNCHANGED <<angle, angle2, fa, fb, fc, sa, sb, sc, va, vb, vc, ma>>

\* Mat4 r = inverse_trans(a).
call_inverse_trans ==
    /\ op = "none"
    /\ op' = "inverse_trans"
    /\ res' = inverse_trans(ma)
    /\ UNCHANGED args

\* Mat4 r = mul_trans(a, b), b an affine matrix.
call_mul_trans ==
    /\ op = "none"
    /\ \E b \in ShearAffine :
          /\ mb' = b
          /\ op' = "mul_trans"
          /\ res' = mul_trans(ma, b)
    /\ UNCHANGED <<angle, angle2, fa, fb, fc, sa, sb, sc, va, vb, vc, ma>>

\* Vec4 r = create_rotation_z(angle) * v.
call_rotate_z ==
    /\ op = "none"
    /\ op' = "rotate_z"
    /\ res' = MulMatVec(create_rotation_z(angle), va)
    /\ UNCHANGED args

\* Vec3 r = mul_trans_vec(create_rotation_z(angle), v.xyz).
call_rotate_z_vec ==
    /\ op = "none"
    /\ op' = "rotate_z_vec"
    /\ res' = mul_trans_vec(create_rotation_z(angle), xyz(va))
    /\ UNCHANGED args

NextScalar == call_mod_pi \/ call_clamp \/ call_mod
NextVec    == call_normalize2 \/ call_normalize3 \/ call_normalize4
NextRefract == call_refract2 \/ call_refract3 \/ call_refract4
NextView   == call_create_look_at \/ call_create_fpp_view
NextPersp  == call_create_perspective \/ call_perspective_point
NextCross  == call_cross3 \/ call_cross4
\* Mat4 r = create_rotation(axis, angle), the axis drawn at the call.
call_create_rotation ==
    /\ op = "none"
    /\ \E axis \in RotationAxes :
          /\ vb' = axis
          /\ op' = "create_rotation"
          /\ res' = create_rotation(axis, angle)
    /\ UNCHANGED <<angle, angle2, fa, fb, fc, sa, sb, sc, va, vc, ma, mb>>

NextMat    == call_det \/ call_inverse \/ call_mul \/ call_transpose
NextAffine == call_inverse_trans \/ call_inverse \/ call_mul_trans
NextRot    == call_rotate_z \/ call_rotate_z_vec \/ call_create_rotation

SpecScalar == InitScalar /\ [][NextScalar]_vars
SpecVec    == InitVec /\ [][NextVec]_vars
SpecRefract == InitRefract /\ [][NextRefract]_vars
SpecView   == InitView /\ [][NextView]_vars
SpecPersp  == InitPersp /\ [][NextPersp]_vars
SpecCross  == InitCross /\ [][NextCross]_vars
SpecMat    == InitMat /\ [][NextMat]_vars
SpecAffine == InitAffine /\ [][NextAffine]_vars
SpecRot    == InitRot /\ [][NextRot]_vars

\* Every call on every argument.
Init == InitScalar \/ InitVec \/ InitRefract \/ InitView \/ InitPersp \/ InitCross \/ InitMat \/ InitAffine \/ InitRot
Next == NextScalar \/ NextVec \/ NextRefract \/ NextView \/ NextPersp \/ NextCross \/ NextMat \/ NextAffine \/ NextRot
Spec == Init /\ [][Next]_vars

---------------------------------------------------------------------------
(* What the claims are stated with.                                        *)

Identity == create_diagonal_matrix(One)

\* Element-for-element equality of two matrices as f32 compares.
MatEq(a, b) == \A c \in Lanes : \A r \in Lanes : FEq(a[c][r], b[c][r])

\* The sum over k of A(r, k) * B(k, c).
RowByColumn(a, b, r, c) ==
    FAdd(FAdd(FAdd(FMul(At(a, r, 0), At(b, 0, c)), FMul(At(a, r, 1), At(b, 1, c))),
              FMul(At(a, r, 2), At(b, 2, c))),
         FMul(At(a, r, 3), At(b, 3, c)))

\* The determinant by the Leibniz expansion: the sum over the permutations
\* p of 0..3 of sign(p) * A(0, p[0]) * A(1, p[1]) * A(2, p[2]) * A(3, p[3]).
Perms == {p \in [Lanes -> Lanes] : \A i \in Lanes : \A j \in Lanes : p[i] = p[j] => i = j}

Inversions(p) == Cardinality({q \in Lanes \X Lanes : q[1] < q[2] /\ p[q[1]] > p[q[2]]})

PermTerm(a, p) ==
    FMul(F(IF Inversions(p) % 2 = 0 THEN 1 ELSE -1),
         FMul(FMul(At(a, 0, p[0]), At(a, 1, p[1])), FMul(At(a, 2, p[2]), At(a, 3, p[3]))))

RECURSIVE SumTerms(_, _)
SumTerms(a, ps) ==
    IF ps = {} THEN Zero
    ELSE LET p == CHOOSE q \in ps : TRUE
         IN  FAdd(PermTerm(a, p), SumTerms(a, ps \ {p}))

LeibnizDet(a) == SumTerms(a, Perms)

\* r is the mathematical a modulo b: congruent to a, and in [0, b) for
\* b > 0, in (b, 0] for b < 0.
TrueModulo(a, b, r) ==
    /\ (r - a) % Abs(b) = 0
    /\ IF b > 0 THEN 0 <= r /\ r < b ELSE b < r /\ r <= 0

XAxis4 == Vec4Of(Vec3Of(One, Zero, Zero), Zero)

Normalizes == {"normalize2", "normalize3", "normalize4"}

Refracts == {"refract2", "refract3", "refract4"}

---------------------------------------------------------------------------
(* The claims.                                                             *)

\* C1: for every affine matrix A (bottom row [0,0,0,1], mutually orthogonal
\* non-zero axes, any translation), inverse_trans(A) equals inverse(A) in
\* all 16 elements.
C1_InverseTransIsInverse ==
    (op = "inverse_trans" /\ IsAffine(ma) /\ NoShear(ma)) => MatEq(res, inverse(ma))

\* C2: for every A with non-zero determinant, A * inverse(A) and
\* inverse(A) * A are the identity, and A times det(A) * inverse(A) (the
\* un-scaled cofactor result) is det(A) times the identity.
C2_InverseIsInverse ==
    (op = "inverse" /\ FNe(det(ma), Zero)) =>
        /\ MulMat(ma, res) = Identity
        /\ MulMat(res, ma) = Identity
        /\ MulMat(ma, [c \in Lanes |-> mm_mul_ps(mm_set_ps1(det(ma)), res[c])])
              = create_diagonal_matrix(det(ma))

\* C2 happens: a matrix of determinant other than 0, 1, -1 has been inverted.
C2_Witness ==
    /\ op = "inverse"
    /\ det(ma) \notin {Zero, One, F(-1)}
    /\ \E c \in Lanes : \E r \in Lanes : res[c][r][2] > 1

\* C3: for A and B with bottom row [0,0,0,1], mul_trans(A, B) equals the
\* general product A * B in all 16 elements.
C3_MulTransIsProduct ==
    (op = "mul_trans" /\ IsAffine(ma) /\ IsAffine(mb)) => res = MulMat(ma, mb)

\* C3 happens: two affine matrices with translations, one with shear, have
\* been multiplied by mul_trans.
C3_Witness ==
    /\ op = "mul_trans"
    /\ IsAffine(ma) /\ IsAffine(mb)
    /\ xyz(ma[3]) # ZeroVec(3) /\ xyz(mb[3]) # ZeroVec(3)
    /\ mb \in ShearAffine

\* C4: operator*(A, B) is the matrix product under the column-major
\* accessor, (A*B)(r, c) = sum over k of A(r, k) * B(k, c), and column i of
\* A*B is the matrix-vector product of A and column i of B.
C4_MulIsMatrixProduct ==
    op = "mul" =>
        /\ \A r \in Lanes : \A c \in Lanes : At(res, r, c) = RowByColumn(ma, mb, r, c)
        /\ \A i \in Lanes : res[i] = MulMatVec(ma, mb[i])

\* C4 happens: a product has an element to which two terms of the sum
\* contribute.
C4_Witness ==
    /\ op = "mul"
    /\ \E r \in Lanes : \E c \in Lanes :
          Cardinality({k \in Lanes : FMul(At(ma, r, k), At(mb, k, c)) # Zero}) >= 2

\* C5: det(A) by the column-pair method equals the determinant by the
\* Leibniz expansion.
C5_DetIsLeibniz ==
    op = "det" => res = LeibnizDet(ma)

\* C5 happens: a non-zero determinant of a matrix with non-zero w lanes in
\* both column pairs has been computed.
C5_Witness ==
    /\ op = "det"
    /\ res # Zero
    /\ ma[0][3] # Zero /\ ma[3][3] # Zero

\* C6 as claimed: create_rotation_z(theta) times (1,0,0), w = 0, yields
\* (cos theta, -sin theta, 0).
C6_RotationZMinusSin ==
    /\ (op = "rotate_z" /\ va = XAxis4) =>
          res = Vec4Of(Vec3Of(cos(angle), FNeg(sin(angle)), Zero), Zero)
    /\ (op = "rotate_z_vec" /\ va = XAxis4) =>
          res = Vec3Of(cos(angle), FNeg(sin(angle)), Zero)

\* C6 as amended: create_rotation_z(theta) times (1,0,0), w = 0, yields
\* (cos theta, sin theta, 0), by operator* and by mul_trans_vec.
C6_RotationZPlusSin ==
    /\ (op = "rotate_z" /\ va = XAxis4) =>
          res = Vec4Of(Vec3Of(cos(angle), sin(angle), Zero), Zero)
    /\ (op = "rotate_z_vec" /\ va = XAxis4) =>
          res = Vec3Of(cos(angle), sin(angle), Zero)

\* C6 happens: (1,0,0) has been rotated by an angle whose sine is not zero.
C6_Witness ==
    /\ op = "rotate_z"
    /\ va = XAxis4
    /\ sin(angle) # Zero

\* C7: for every finite angle the result r of mod_pi(angle) satisfies
\* -pi <= r < pi.
C7_ModPiInRange ==
    op = "mod_pi" => ((-PI32) <= res /\ res < PI32)

\* C8: for every a and every non-zero b of a signed integer type, mod(a, b)
\* returns the true mathematical modulo of a by b.
C8_ModIsTrueModulo ==
    (op = "mod" /\ sb # 0) => TrueModulo(sa, sb, res)

\* C9 as claimed: clamp(v, lo, hi) returns lo whenever v < lo, hi whenever
\* v > hi, and v otherwise, with no ordering of lo and hi assumed.
C9_ClampAnyBounds ==
    op = "clamp" =>
        /\ sa < sb => res = sb
        /\ sa > sc => res = sc
        /\ (~(sa < sb) /\ ~(sa > sc)) => res = sa

\* C9 as amended: clamp(v, lo, hi) returns hi whenever v > hi; when v < lo
\* it returns lo if lo <= hi and hi if lo > hi; and it returns v otherwise.
C9_ClampLowThenHigh ==
    op = "clamp" =>
        /\ sa > sc => res = sc
        /\ (sa < sb /\ sb <= sc) => res = sb
        /\ (sa < sb /\ sb > sc) => res = sc
        /\ (~(sa < sb) /\ ~(sa > sc)) => res = sa

\* C9 happens: clamp has been called with v < lo and lo > hi.
C9_Witness ==
    /\ op = "clamp"
    /\ sa < sb
    /\ sb > sc

\* C10: normalize of the all-zero Vec2, Vec3 or Vec4 returns the all-zero
\* vector and divides by nothing; whenever normalize divides, the divisor
\* is the computed length and is not zero.
C10_NormalizeZeroGuard ==
    op \in Normalizes =>
        /\ (\A i \in DOMAIN va : va[i] = Zero) =>
              /\ \A i \in DOMAIN va : res.out[i] = Zero
              /\ res.divisors = <<>>
        /\ \A k \in DOMAIN res.divisors : FNe(res.divisors[k], Zero)

\* C10 happens: normalize(Vec4) has been called on the zero vector.
C10_Witness ==
    /\ op = "normalize4"
    /\ \A i \in DOMAIN va : va[i] = Zero

\* C11: for Vec2, Vec3 and Vec4, whenever the discriminant
\* sin_t = ratio^2 * (1 - dot(a,b)^2) exceeds 1, refract(a, b, ratio)
\* returns the all-zero vector and takes no square root; no square root of
\* a negative value is ever taken.
C11_RefractTotalInternalReflection ==
    op \in Refracts =>
        /\ FGt(Discriminant(va, vb, fa), One) =>
              /\ \A i \in DOMAIN va : res.out[i] = Zero
              /\ res.roots = <<>>
        /\ \A k \in DOMAIN res.roots : ~FLt(res.roots[k], Zero)

\* C11 happens: refract(Vec4) has been called on unit vectors, neither of
\* them an axis, whose discriminant exceeds 1.
C11_Witness ==
    /\ op = "refract4"
    /\ dot4(va, va) = One /\ dot4(vb, vb) = One
    /\ \E i \in Lanes : va[i][2] > 1
    /\ FGt(Discriminant(va, vb, fa), One)

\* C12: for eye # target and up not parallel to eye - target, the rows 0,
\* 1, 2 of create_look_at(eye, target, up) hold, in their first three
\* columns, right = normalize(cross(up, forward)), true-up =
\* cross(forward, right) and forward = normalize(eye - target); column 3 is
\* (-dot(right, eye), -dot(true-up, eye), -dot(forward, eye), 1); the
\* bottom row is [0,0,0,1].
C12_LookAtRows ==
    (/\ op = "create_look_at"
     /\ va # vb
     /\ cross3(vc, SubVec3(va, vb)) # ZeroVec(3)) =>
        LET forward == normalize3(SubVec3(va, vb)).out
            right   == normalize3(cross3(vc, forward)).out
            trueup  == cross3(forward, right)
        IN  /\ \A c \in 0 .. 2 : /\ At(res, 0, c) = right[c]
                                 /\ At(res, 1, c) = trueup[c]
                                 /\ At(res, 2, c) = forward[c]
            /\ res[3] = Vec4Of(Vec3Of(FNeg(dot3(right, va)), FNeg(dot3(trueup, va)),
                                      FNeg(dot3(forward, va))), One)
            /\ \A c \in Lanes : At(res, 3, c) = IF c = 3 THEN One ELSE Zero

\* C12 happens: create_look_at has been called with a target off the
\* origin, an eye off the axes and an up that is neither a unit vector nor
\* perpendicular to the view direction, and no axis of the result is an
\* axis of the world.
C12_Witness ==
    /\ op = "create_look_at"
    /\ vb # ZeroVec(3)
    /\ cross3(vc, SubVec3(va, vb)) # ZeroVec(3)
    /\ dot3(vc, SubVec3(va, vb)) # Zero
    /\ dot3(vc, vc) # One
    /\ \A r \in 0 .. 2 : Cardinality({c \in 0 .. 2 : At(res, r, c) # Zero}) >= 2

\* C13: for 0 < near < far, create_perspective(fov, aspect, near, far)
\* times the view-space point (0, 0, z, 1) has clip w = -z and clip
\* z = z * far / (near - far) + near * far / (near - far); after the
\* perspective divide the centre of the near plane (z = -near) has depth 0
\* and the centre of the far plane (z = -far) has depth 1.
C13_PerspectiveDepth ==
    (/\ op = "perspective_point"
     /\ FLt(Zero, fb) /\ FLt(fb, fc)
     /\ va[0] = Zero /\ va[1] = Zero /\ va[3] = One) =>
        /\ res[3] = FNeg(va[2])
        /\ res[2] = FAdd(FDiv(FMul(va[2], fc), FSub(fb, fc)),
                         FDiv(FMul(fb, fc), FSub(fb, fc)))
        /\ va[2] = FNeg(fb) => FDiv(res[2], res[3]) = Zero
        /\ va[2] = FNeg(fc) => FDiv(res[2], res[3]) = One

\* C13 happens: a point strictly between the near and the far plane has
\* been projected, to a depth strictly between 0 and 1.
C13_Witness ==
    /\ op = "perspective_point"
    /\ FLt(Zero, fb) /\ FLt(fb, fc)
    /\ va[0] = Zero /\ va[1] = Zero /\ va[3] = One
    /\ FLt(fb, FNeg(va[2])) /\ FLt(FNeg(va[2]), fc)
    /\ FLt(Zero, FDiv(res[2], res[3])) /\ FLt(FDiv(res[2], res[3]), One)

\* C14: for every matrix A, transpose(transpose(A)) equals A in all 16
\* elements, and transpose(A)(r, c) = A(c, r) for every row r and column c.
C14_TransposeInvolution ==
    op = "transpose" =>
        /\ transpose(res) = ma
        /\ \A r \in Lanes : \A c \in Lanes : At(res, r, c) = At(ma, c, r)

\* C14 happens: a matrix that differs from its transpose in the upper-left
\* block and in the last row has been transposed.
C14_Witness ==
    /\ op = "transpose"
    /\ \E r \in 0 .. 2 : \E c \in 0 .. 2 : At(ma, r, c) # At(ma, c, r)
    /\ \E c \in 0 .. 2 : At(ma, 3, c) # At(ma, c, 3)

\* C15 as claimed: the step of inverse_trans commented 'transpose 3x3'
\* yields the transpose of the upper-left 3x3 block of the input:
\* out.columns[j][i] = a.columns[i][j] for i, j in 0 .. 2.
C15_TransposeStepTransposes ==
    op = "inverse_trans" =>
        \A i \in 0 .. 2 : \A j \in 0 .. 2 :
            inverse_trans_transposed(ma)[j][i] = ma[i][j]

\* C16 as claimed: for an affine A with non-zero axes, no lane of
\* lengths_squared is zero when inverse_trans divides 1 by it, and the
\* bottom row of the result is [0,0,0,1].
C16_InverseTransNoZeroDivide ==
    (/\ op = "inverse_trans"
     /\ IsAffine(ma)
     /\ \A c \in 0 .. 2 : xyz(ma[c]) # ZeroVec(3)) =>
        /\ \A i \in Lanes : FNe(inverse_trans_lengths_squared(ma)[i], Zero)
        /\ \A c \in Lanes : At(res, 3, c) = IF c = 3 THEN One ELSE Zero

\* C17 as claimed: for Vec4 a and b with finite components, the x, y, z of
\* cross(a, b) are cross(a.xyz, b.xyz) and its w is 0 whatever a.w and b.w.
C17_Cross4IsCross3 ==
    (/\ op = "cross4"
     /\ \A i \in Lanes : IsFinite(va[i]) /\ IsFinite(vb[i])) =>
        /\ \A i \in 0 .. 2 : FEq(res[i], cross3(xyz(va), xyz(vb))[i])
        /\ res[3] = Zero

C19_FppViewIsLookAhead ==
    (op = "create_fpp_view" /\ angle = 0 /\ angle2 = 0) =>
        /\ MatEq(res, create_look_at(va, AddVec3(va, Ahead), YUp))
        /\ \A c \in 0 .. 2 : \A r \in 0 .. 2 : res[c][r] = IF r = c THEN One ELSE Zero
        /\ res[3] = Vec4Of(Vec3Of(FNeg(va[0]), FNeg(va[1]), FNeg(va[2])), One)

============================================================================
